---- MODULE Spec2Model ----
(***************************************************************************)
(* A model of src/main.py: the course scraper that diffs the scraped       *)
(* listing against the snapshot in courses.yml and posts the new courses   *)
(* to a Telegram channel.                                                  *)
(*                                                                         *)
(* One run of main() is a sequence of steps (pc), split at the points      *)
(* where the process talks to the outside world (a GET, a send) or ends.   *)
(* The web site and the Telegram API are the environment: every GET        *)
(* returns some body or raises, every send succeeds or raises.  The only   *)
(* state that survives a run is the file courses.yml (disk).  Runs follow  *)
(* one another (the external scheduler), never overlapping.                *)
(*                                                                         *)
(* The bookkeeping of a run (fetched, bodies, sent, log, writes, disk0)   *)
(* is reset at the start of each run; announced and initial_ids are        *)
(* histories over all runs.                                                *)
(***************************************************************************)
EXTENDS Integers, Sequences, FiniteSets, TLC

\* Bounds of the model.
MaxItems == 5       \* most <li> children of the pagination <ul>
MaxCourses == 3     \* most course blocks served during one run
MaxSnapshot == 2    \* most courses in the initial courses.yml

\* Program constants (main.py lines 21 and 24).
COURSE_URL == "https://hacker-school.de/unterstuetzen/inspirer/checkin-inspirer-yourschool/?formats%5B%5D=ys"
TELEGRAM_CHANNEL == "TELEGRAM_CHANNEL"

Range(s) == {s[i] : i \in DOMAIN s}
BoundedSeq(S, n) == UNION {[1..m -> S] : m \in 0..n}

(***************************************************************************)
(* The texts of a course block, after .text.strip().  "a"+"b"+"x" and      *)
(* "ab"+""+"x" concatenate to the same string, so two different courses    *)
(* of this universe share an id.                                           *)
(***************************************************************************)
Fields == {<<"a", "b", "x">>, <<"ab", "", "x">>, <<"a", "", "x">>}

\* A <div class="hs-event">: ok is FALSE when one of the three elements
\* parse_course looks up is missing.
Blocks ==
    {[ok |-> TRUE, title |-> f[1], date |-> f[2], description |-> f[3]] : f \in Fields}
    \cup {[ok |-> FALSE, title |-> "", date |-> "", description |-> ""]}

\* hashlib.md5(...).hexdigest(): a deterministic digest of the string,
\* taken as injective on the strings of the model.
Md5(s) == "md5:" \o s

\* parse_course, for a block that has its three elements.
parse_course(block) ==
    [id |-> Md5(block.title \o block.date \o block.description),
     title |-> block.title,
     date |-> block.date,
     description |-> block.description]

Courses == {parse_course(b) : b \in {x \in Blocks : x.ok}}

\* The loop of get_course_page over the blocks of one page.
RECURSIVE ParsePage(_)
ParsePage(blocks) ==
    IF blocks = <<>> THEN <<>>
    ELSE <<parse_course(Head(blocks))>> \o ParsePage(Tail(blocks))

\* A page on which parse_course raises AttributeError (None has no .text).
Malformed(blocks) == \E i \in DOMAIN blocks : ~blocks[i].ok

\* The URL get_course_page requests for a page; page 1 is COURSE_URL itself.
PageUrl(n) == IF n = 1 THEN COURSE_URL ELSE COURSE_URL \o "&event_page=" \o ToString(n)

(***************************************************************************)
(* courses.yml.  yaml.dump writes a sequence of mappings with the keys     *)
(* sorted; yaml.safe_load reads the mappings back into dicts.              *)
(***************************************************************************)
YamlDump(cs) ==
    [i \in 1..Len(cs) |->
        << <<"date", cs[i].date>>, <<"description", cs[i].description>>,
           <<"id", cs[i].id>>, <<"title", cs[i].title>> >>]

YamlValue(mapping, key) ==
    mapping[CHOOSE j \in DOMAIN mapping : mapping[j][1] = key][2]

YamlLoad(doc) ==
    [i \in 1..Len(doc) |->
        [id |-> YamlValue(doc[i], "id"),
         title |-> YamlValue(doc[i], "title"),
         date |-> YamlValue(doc[i], "date"),
         description |-> YamlValue(doc[i], "description")]]

NoFile == [exists |-> FALSE, doc |-> <<>>]

save_courses(cs) == [exists |-> TRUE, doc |-> YamlDump(cs)]

\* Mutant: the existence test fails, so a snapshot on disk is never read.
load_existing_courses_NeverReads(file) == <<>>

load_existing_courses(file) == IF file.exists THEN YamlLoad(file.doc) ELSE <<>>

\* The files the program may find at start: none, or a saved course list.
Disks == {NoFile} \cup {save_courses(cs) : cs \in BoundedSeq(Courses, MaxSnapshot)}

(***************************************************************************)
(* The diff of main (lines 131-135).                                       *)
(***************************************************************************)
\* Mutant: compares the whole records instead of their ids.
AnyIdEqual_WholeRecord(e, fs) == \E i \in DOMAIN fs : fs[i] = e

\* any(e["id"] == f["id"] for f in existing_courses)
RECURSIVE AnyIdEqual(_, _)
AnyIdEqual(e, fs) ==
    IF fs = <<>> THEN FALSE
    ELSE IF e.id = Head(fs).id THEN TRUE
    ELSE AnyIdEqual(e, Tail(fs))

RECURSIVE NewCoursesLoop(_, _, _)
NewCoursesLoop(cur, existing, acc) ==
    IF cur = <<>> THEN acc
    ELSE NewCoursesLoop(Tail(cur), existing,
                        IF ~AnyIdEqual(Head(cur), existing)
                        THEN Append(acc, Head(cur)) ELSE acc)

NewCourses(cur, existing) == NewCoursesLoop(cur, existing, <<>>)

\* Mutant: the page count is taken one too high.
LastPage_OffByOne(k) == k - 1

\* last_page = len(pagination_items) - 2
LastPage(k) == k - 2

(***************************************************************************)
(* The message of post_new_courses and its escaped copy for the log (the   *)
(* texts of the model hold no newline of their own).                       *)
(***************************************************************************)
Message(course) ==
    "New course available:\n\n" \o course.title \o "\n" \o course.date
        \o "\n\nCheck it out at " \o COURSE_URL

EscapedMessage(course) ==
    "New course available:\\n\\n" \o course.title \o "\\n" \o course.date
        \o "\\n\\nCheck it out at " \o COURSE_URL

Sent(course) == [chat_id |-> TELEGRAM_CHANNEL, text |-> Message(course)]

VARIABLES
    disk,               \* courses.yml
    pc,                 \* where the process is
    existing_courses,   \* main: the loaded snapshot
    pagination_items,   \* get_courses: len(pagination_items), -1 without container
    courses,            \* get_courses: the courses gathered so far
    page,               \* get_courses: the loop variable
    current_courses,    \* main: what get_courses returned
    new_courses,        \* main: the diff; the argument of post_new_courses
    idx,                \* post_new_courses: position of the loop in new_courses
    exit_status,        \* -1 while running, else the process's exit status
    raised,             \* the exception that ended the process
    log,                \* what this run appended to app.log
    fetched,            \* the URLs this run requested, in order
    bodies,             \* the course blocks of the responses this run received
    sent,               \* the messages this run delivered, in order
    writes,             \* the calls of save_courses in this run
    disk0,              \* courses.yml as it was when this run started
    announced,          \* ids of the courses a message was delivered for, all runs
    initial_ids         \* ids in the first courses.yml

vars == <<disk, pc, existing_courses, pagination_items, courses, page,
          current_courses, new_courses, idx, exit_status, raised, log,
          fetched, bodies, sent, writes, disk0, announced, initial_ids>>

Ids(cs) == {cs[i].id : i \in DOMAIN cs}

Init ==
    /\ disk \in Disks
    /\ disk0 = disk
    /\ initial_ids = Ids(load_existing_courses(disk))
    /\ pc = "idle"
    /\ existing_courses = <<>>
    /\ pagination_items = -1
    /\ courses = <<>>
    /\ page = 0
    /\ current_courses = <<>>
    /\ new_courses = <<>>
    /\ idx = 0
    /\ exit_status = -1
    /\ raised = "none"
    /\ log = <<>>
    /\ fetched = <<>>
    /\ bodies = <<>>
    /\ sent = <<>>
    /\ writes = 0
    /\ announced = {}

\* sys.exit(1), or an exception nobody catches: the process ends with status 1.
Die(exc) ==
    /\ pc' = "exited"
    /\ exit_status' = 1
    /\ raised' = exc

\* main, lines 127-128: a new process starts, logs and loads the snapshot.
StartRun ==
    /\ pc \in {"idle", "exited"}
    /\ pc' = "get_courses"
    /\ log' = <<"Running!">>
    /\ existing_courses' = load_existing_courses(disk)
    /\ disk0' = disk
    /\ pagination_items' = -1
    /\ courses' = <<>>
    /\ page' = 0
    /\ current_courses' = <<>>
    /\ new_courses' = <<>>
    /\ idx' = 0
    /\ exit_status' = -1
    /\ raised' = "none"
    /\ fetched' = <<>>
    /\ bodies' = <<>>
    /\ sent' = <<>>
    /\ writes' = 0
    /\ UNCHANGED <<disk, announced, initial_ids>>

\* get_courses, lines 58-62: the GET of the first page raises.
GetCoursesFetchFail ==
    /\ pc = "get_courses"
    /\ fetched' = Append(fetched, PageUrl(1))
    /\ log' = Append(log, "Error fetching courses")
    /\ Die("SystemExit")
    /\ UNCHANGED <<disk, existing_courses, pagination_items, courses, page,
                   current_courses, new_courses, idx, bodies, sent, writes,
                   disk0, announced, initial_ids>>

\* Mutant: the branch without a pagination container extracts page 1 all the same.
GetCoursesNoPagination_Extracts ==
    /\ pc = "get_courses"
    /\ \E blocks \in BoundedSeq(Blocks, MaxCourses) :
        /\ fetched' = Append(fetched, PageUrl(1))
        /\ bodies' = Append(bodies, blocks)
        /\ log' = Append(log, "Pagination container not found")
        /\ IF Malformed(blocks)
           THEN /\ Die("AttributeError")
                /\ UNCHANGED current_courses
           ELSE /\ current_courses' = ParsePage(blocks)
                /\ pc' = "diff"
                /\ UNCHANGED <<exit_status, raised>>
    /\ UNCHANGED <<disk, existing_courses, pagination_items, courses, page,
                   new_courses, idx, sent, writes, disk0, announced, initial_ids>>

\* get_courses, lines 59-69: the first page has no <ul class="pagination">.
GetCoursesNoPagination ==
    /\ pc = "get_courses"
    /\ \E blocks \in BoundedSeq(Blocks, MaxCourses) :
        /\ fetched' = Append(fetched, PageUrl(1))
        /\ bodies' = Append(bodies, blocks)
    /\ log' = Append(log, "Pagination container not found")
    /\ current_courses' = <<>>
    /\ pc' = "diff"
    /\ UNCHANGED <<disk, existing_courses, pagination_items, courses, page,
                   new_courses, idx, exit_status, raised, sent, writes, disk0,
                   announced, initial_ids>>

\* get_courses, lines 59-77 and the head of the loop of line 78: the first page
\* has a pagination container with k items; its own response is parsed as page 1.
GetCoursesFirstPage ==
    /\ pc = "get_courses"
    /\ \E k \in 0..MaxItems, blocks \in BoundedSeq(Blocks, MaxCourses) :
        /\ fetched' = Append(fetched, PageUrl(1))
        /\ bodies' = Append(bodies, blocks)
        /\ pagination_items' = k
        /\ IF Malformed(blocks)
           THEN /\ Die("AttributeError")
                /\ UNCHANGED <<courses, page, current_courses>>
           ELSE /\ courses' = ParsePage(blocks)
                /\ UNCHANGED <<exit_status, raised>>
                /\ IF LastPage(k) < 2
                   THEN /\ current_courses' = courses'
                        /\ pc' = "diff"
                        /\ UNCHANGED page
                   ELSE /\ page' = 2
                        /\ pc' = "pages"
                        /\ UNCHANGED current_courses
    /\ UNCHANGED <<disk, existing_courses, new_courses, idx, log, sent, writes,
                   disk0, announced, initial_ids>>

\* Mutant: a failed GET of a later page is logged and the loop goes on.
GetCoursePageFail_Continues ==
    /\ pc = "pages"
    /\ fetched' = Append(fetched, PageUrl(page))
    /\ log' = Append(log, "Error fetching courses")
    /\ page' = page + 1
    /\ IF page + 1 > LastPage(pagination_items)
       THEN /\ current_courses' = courses
            /\ pc' = "diff"
       ELSE UNCHANGED <<current_courses, pc>>
    /\ UNCHANGED <<disk, existing_courses, pagination_items, courses,
                   new_courses, idx, exit_status, raised, bodies, sent, writes,
                   disk0, announced, initial_ids>>

\* get_course_page, lines 86-92: the GET of a later page raises.
GetCoursePageFail ==
    /\ pc = "pages"
    /\ fetched' = Append(fetched, PageUrl(page))
    /\ log' = Append(log, "Error fetching courses")
    /\ Die("SystemExit")
    /\ UNCHANGED <<disk, existing_courses, pagination_items, courses, page,
                   current_courses, new_courses, idx, bodies, sent, writes,
                   disk0, announced, initial_ids>>

\* get_courses, lines 78-81, with get_course_page, lines 84-100: one turn of
\* the loop over the pages 2..last_page.
GetCoursePage ==
    /\ pc = "pages"
    /\ \E blocks \in BoundedSeq(Blocks, MaxCourses) :
        /\ Len(courses) + Len(blocks) <= MaxCourses
        /\ fetched' = Append(fetched, PageUrl(page))
        /\ bodies' = Append(bodies, blocks)
        /\ IF Malformed(blocks)
           THEN /\ Die("AttributeError")
                /\ UNCHANGED <<courses, page, current_courses>>
           ELSE /\ courses' = courses \o ParsePage(blocks)
                /\ page' = page + 1
                /\ UNCHANGED <<exit_status, raised>>
                /\ IF page + 1 > LastPage(pagination_items)
                   THEN /\ current_courses' = courses'
                        /\ pc' = "diff"
                   ELSE UNCHANGED <<current_courses, pc>>
    /\ UNCHANGED <<disk, existing_courses, pagination_items, new_courses, idx,
                   log, sent, writes, disk0, announced, initial_ids>>

\* main, lines 130-135: the event loop is obtained and the diff computed.
MainDiff ==
    /\ pc = "diff"
    /\ new_courses' = NewCourses(current_courses, existing_courses)
    /\ pc' = "branch"
    /\ UNCHANGED <<disk, existing_courses, pagination_items, courses, page,
                   current_courses, idx, exit_status, raised, log, fetched,
                   bodies, sent, writes, disk0, announced, initial_ids>>

\* Mutant: the snapshot is saved before the courses are posted.
MainPost_SavesFirst ==
    /\ pc = "branch"
    /\ new_courses # <<>>
    /\ disk' = save_courses(current_courses)
    /\ writes' = writes + 1
    /\ Die("AttributeError")
    /\ UNCHANGED <<existing_courses, pagination_items, courses, page,
                   current_courses, new_courses, idx, log, fetched, bodies,
                   sent, disk0, announced, initial_ids>>

(***************************************************************************)
(* main, lines 137-140, with new courses.  Line 138 is                     *)
(*     loop.run(post_new_courses(new_courses))                             *)
(* and loop is what asyncio.get_event_loop() returned: an event loop has   *)
(* run_forever, run_until_complete and run_in_executor, and no attribute   *)
(* run.  Looking loop.run up raises AttributeError before the coroutine is *)
(* even created; nobody catches it, so the process ends with a traceback   *)
(* and status 1, and lines 139-140 (save_courses, the log line) are never  *)
(* reached.                                                                *)
(***************************************************************************)
MainPost ==
    /\ pc = "branch"
    /\ new_courses # <<>>
    /\ Die("AttributeError")
    /\ UNCHANGED <<disk, existing_courses, pagination_items, courses, page,
                   current_courses, new_courses, idx, log, fetched, bodies,
                   sent, writes, disk0, announced, initial_ids>>

\* Mutant: the branch without new courses saves the snapshot too.
MainNoNew_Saves ==
    /\ pc = "branch"
    /\ new_courses = <<>>
    /\ disk' = save_courses(current_courses)
    /\ writes' = writes + 1
    /\ log' = Append(log, "No new courses found.")
    /\ pc' = "exited"
    /\ exit_status' = 0
    /\ UNCHANGED <<existing_courses, pagination_items, courses, page,
                   current_courses, new_courses, idx, raised, fetched, bodies,
                   sent, disk0, announced, initial_ids>>

\* main, lines 141-142: nothing new; main returns and the process ends normally.
MainNoNew ==
    /\ pc = "branch"
    /\ new_courses = <<>>
    /\ log' = Append(log, "No new courses found.")
    /\ pc' = "exited"
    /\ exit_status' = 0
    /\ UNCHANGED <<disk, existing_courses, pagination_items, courses, page,
                   current_courses, new_courses, idx, raised, fetched, bodies,
                   sent, writes, disk0, announced, initial_ids>>

Next ==
    \/ StartRun
    \/ GetCoursesFetchFail
    \/ GetCoursesNoPagination
    \/ GetCoursesFirstPage
    \/ GetCoursePageFail
    \/ GetCoursePage
    \/ MainDiff
    \/ MainPost
    \/ MainNoNew

Spec == Init /\ [][Next]_vars

(***************************************************************************)
(* post_new_courses, lines 29-39, called on its own with a list of         *)
(* courses and driven to its end: main never gets that far (see MainPost), *)
(* so the coroutine is checked as the component it is.                     *)
(***************************************************************************)
InitPost ==
    /\ disk \in Disks
    /\ disk0 = disk
    /\ initial_ids = Ids(load_existing_courses(disk))
    /\ pc = "post"
    /\ new_courses \in BoundedSeq(Courses, MaxCourses)
    /\ idx = 1
    /\ existing_courses = <<>>
    /\ pagination_items = -1
    /\ courses = <<>>
    /\ page = 0
    /\ current_courses = <<>>
    /\ exit_status = -1
    /\ raised = "none"
    /\ log = <<>>
    /\ fetched = <<>>
    /\ bodies = <<>>
    /\ sent = <<>>
    /\ writes = 0
    /\ announced = {}

\* Lines 32-36: the message of the course at idx is sent and logged.
PostSendOk ==
    /\ pc = "post"
    /\ idx <= Len(new_courses)
    /\ sent' = Append(sent, Sent(new_courses[idx]))
    /\ log' = Append(log, "Message sent: " \o EscapedMessage(new_courses[idx]))
    /\ announced' = announced \cup {new_courses[idx].id}
    /\ idx' = idx + 1
    /\ UNCHANGED <<disk, pc, existing_courses, pagination_items, courses, page,
                   current_courses, new_courses, exit_status, raised, fetched,
                   bodies, writes, disk0, initial_ids>>

\* Mutant: a failed send is logged and the loop goes on with the next course.
PostSendFail_Continues ==
    /\ pc = "post"
    /\ idx <= Len(new_courses)
    /\ log' = Append(log, "Error: send_message raised")
    /\ idx' = idx + 1
    /\ UNCHANGED <<disk, pc, existing_courses, pagination_items, courses, page,
                   current_courses, new_courses, exit_status, raised, fetched,
                   bodies, sent, writes, disk0, announced, initial_ids>>

\* Lines 37-39: send_message raises; the error is logged and sys.exit(1) called.
PostSendFail ==
    /\ pc = "post"
    /\ idx <= Len(new_courses)
    /\ log' = Append(log, "Error: send_message raised")
    /\ Die("SystemExit")
    /\ UNCHANGED <<disk, existing_courses, pagination_items, courses, page,
                   current_courses, new_courses, idx, fetched, bodies, sent,
                   writes, disk0, announced, initial_ids>>

\* Line 31: the loop is over and the coroutine returns.
PostReturn ==
    /\ pc = "post"
    /\ idx > Len(new_courses)
    /\ pc' = "post_returned"
    /\ UNCHANGED <<disk, existing_courses, pagination_items, courses, page,
                   current_courses, new_courses, idx, exit_status, raised, log,
                   fetched, bodies, sent, writes, disk0, announced, initial_ids>>

NextPost ==
    \/ PostSendOk
    \/ PostSendFail
    \/ PostReturn

SpecPost == InitPost /\ [][NextPost]_vars

(***************************************************************************)
(* The runs of main under a scheduler that keeps starting runs and a web   *)
(* site that always answers: every step of a run is taken once enabled.    *)
(***************************************************************************)
NextFair ==
    \/ StartRun
    \/ GetCoursesNoPagination
    \/ GetCoursesFirstPage
    \/ GetCoursePage
    \/ MainDiff
    \/ MainPost
    \/ MainNoNew

FairSpec == Init /\ [][NextFair]_vars /\ WF_vars(NextFair)

(***************************************************************************)
(* The properties.                                                         *)
(***************************************************************************)
Logged(line) == \E i \in DOMAIN log : log[i] = line

FetchFailed == Logged("Error fetching courses")
NoPagination == Logged("Pagination container not found")
SendFailed == Logged("Error: send_message raised")
NoNewExit == pc = "exited" /\ Logged("No new courses found.")

\* The courses of the responses received, page after page.
RECURSIVE ParsedBodies(_)
ParsedBodies(bs) ==
    IF bs = <<>> THEN <<>> ELSE ParsePage(Head(bs)) \o ParsedBodies(Tail(bs))

\* C1 (as claimed): a run that found new courses and met no failing send ends
\* normally, having sent one message per new course in order, with the
\* snapshot equal to the full current list.
C1_PostsThenSaves ==
    (pc = "exited" /\ new_courses # <<>> /\ ~SendFailed)
        => /\ exit_status = 0
           /\ sent = [i \in 1..Len(new_courses) |-> Sent(new_courses[i])]
           /\ disk = save_courses(current_courses)

\* C2: when the send for the k-th course fails, the process ends at once with
\* status 1: exactly the k-1 courses before it were sent, save_courses was not
\* called and the snapshot is as it was.
C2_SendFailureAborts ==
    SendFailed
        => /\ pc = "exited"
           /\ exit_status = 1
           /\ raised = "SystemExit"
           /\ idx \in 1..Len(new_courses)
           /\ sent = [i \in 1..(idx - 1) |-> Sent(new_courses[i])]
           /\ writes = 0
           /\ disk = disk0

C2_Witness ==
    SendFailed /\ pc = "exited" /\ idx = 2 /\ Len(new_courses) = 3 /\ Len(sent) = 1

\* C3: new_courses is the subsequence of current_courses of the elements whose
\* id is the id of no element of existing_courses; elements of current_courses
\* with the same id are all kept.
C3_DiffCorrect ==
    pc = "branch"
        => new_courses =
             SelectSeq(current_courses,
                       LAMBDA e : \A i \in DOMAIN existing_courses :
                                      existing_courses[i].id # e.id)

C3_Witness ==
    /\ pc = "branch"
    /\ existing_courses # <<>>
    /\ Len(new_courses) = 2
    /\ Len(current_courses) = 3
    /\ new_courses[1].id = new_courses[2].id

\* C4: a run that finds the snapshot equal to what it scrapes has no new
\* course; a run without new courses sends nothing, does not write the
\* snapshot and exits with status 0.
C4_NoNewNoWrite ==
    /\ (pc = "branch" /\ disk = save_courses(current_courses)) => new_courses = <<>>
    /\ (pc = "branch" /\ new_courses = <<>>)
          => (sent = <<>> /\ writes = 0 /\ disk = disk0)
    /\ NoNewExit
          => /\ new_courses = <<>>
             /\ exit_status = 0
             /\ raised = "none"
             /\ sent = <<>>
             /\ writes = 0
             /\ disk = disk0

C4_Witness ==
    /\ NoNewExit
    /\ current_courses # <<>>
    /\ disk = save_courses(current_courses)

\* C5 (as claimed): after every run that completes normally the snapshot is
\* exactly the scrape result of that run.
C5_SnapshotIsCurrent ==
    (pc = "exited" /\ exit_status = 0)
        => load_existing_courses(disk) = current_courses

\* C5 (amended): after a run that completes normally the snapshot is the
\* scrape result of that run if the run found new courses, and is left as it
\* was if the run found none.
C5_SnapshotReplacedOnlyWithNew ==
    (pc = "exited" /\ exit_status = 0)
        => IF new_courses # <<>>
           THEN disk = save_courses(current_courses) /\ writes = 1
           ELSE disk = disk0 /\ writes = 0

C5_Witness ==
    /\ pc = "exited"
    /\ exit_status = 0
    /\ \E i \in DOMAIN load_existing_courses(disk) :
          load_existing_courses(disk)[i].id \notin Ids(current_courses)

\* C6 (as claimed): a course that runs keep finding new is eventually
\* announced and recorded in the snapshot.
C6_EventuallyAnnounced ==
    \A c \in Courses :
        ([]<>(pc = "branch" /\ c \in Range(new_courses)))
            => <>(c.id \in announced /\ c \in Range(load_existing_courses(disk)))

\* C7: after a failed GET the process has ended with status 1, the failed
\* request is the last one and no URL was requested twice, no message was
\* sent and the snapshot is as it was.
C7_FetchFailureAborts ==
    FetchFailed
        => /\ pc = "exited"
           /\ exit_status = 1
           /\ raised = "SystemExit"
           /\ fetched = [i \in 1..Len(fetched) |-> PageUrl(i)]
           /\ Len(fetched) = Len(bodies) + 1
           /\ new_courses = <<>>
           /\ sent = <<>>
           /\ writes = 0
           /\ disk = disk0

C7_Witness ==
    FetchFailed /\ pc = "exited" /\ Len(fetched) = 3 /\ disk.exists

\* C8: without a pagination container get_courses returns the empty list,
\* having requested the first page only and extracted nothing from it; the
\* run sends nothing, leaves the snapshot alone and ends with status 0.
C8_NoPaginationIsEmptyRun ==
    NoPagination
        => /\ pc \in {"diff", "branch", "exited"}
           /\ current_courses = <<>>
           /\ new_courses = <<>>
           /\ fetched = <<PageUrl(1)>>
           /\ sent = <<>>
           /\ writes = 0
           /\ disk = disk0
           /\ raised = "none"
           /\ exit_status = (IF pc = "exited" THEN 0 ELSE -1)

C8_Witness ==
    /\ NoPagination
    /\ pc = "exited"
    /\ exit_status = 0
    /\ bodies[1] # <<>>
    /\ disk.exists

\* C9: with k pagination items and last_page = k - 2, get_courses requests
\* page 1 once and then the pages 2..last_page in ascending order, none of
\* them when last_page < 2, and returns the pages' courses in page order.
C9_PagesInOrder ==
    LET last == pagination_items - 2
        n == IF last >= 2 THEN last ELSE 1
    IN  /\ pc = "pages"
            => /\ page \in 2..last
               /\ fetched = [i \in 1..(page - 1) |-> PageUrl(i)]
               /\ courses = ParsedBodies(bodies)
        /\ (pc \in {"diff", "branch"} /\ pagination_items >= 0)
            => /\ fetched = [i \in 1..n |-> PageUrl(i)]
               /\ Len(bodies) = n
               /\ current_courses = ParsedBodies(bodies)

C9_Witness ==
    /\ pc = "diff"
    /\ pagination_items = 5
    /\ fetched = <<PageUrl(1), PageUrl(2), PageUrl(3)>>
    /\ \A i \in DOMAIN bodies : bodies[i] # <<>>
    /\ Len(current_courses) = 3

\* C10: every id in the snapshot was in the first snapshot or belongs to a
\* course a message was delivered for, and a run writes the snapshot at most
\* once.
C10_OnlyAnnouncedRecorded ==
    /\ Ids(load_existing_courses(disk)) \subseteq (initial_ids \cup announced)
    /\ writes <= 1

C10_Witness ==
    /\ pc = "exited"
    /\ new_courses # <<>>
    /\ \E i \in DOMAIN new_courses : new_courses[i].id \notin initial_ids
    /\ disk.exists

====
